---- MODULE Spec2Model ----
(***************************************************************************)
(* OpenAeroStruct: the circulation solver (SolveMatrix) and the            *)
(* aero/structure transfer components (TransferDisplacements,              *)
(* TransferLoads).                                                         *)
(*                                                                         *)
(* Numbers are exact extended rationals <<n, d>> standing for the doubles  *)
(* of the code: d > 0 is the finite value n/d in lowest terms, <<1,0>> and *)
(* <<-1,0>> are +inf and -inf, <<0,0>> is nan.  Rounding is not modelled.  *)
(***************************************************************************)
EXTENDS Integers, Sequences, FiniteSets, TLC

VARIABLES
    \* SolveMatrix
    mtx,            \* inputs['mtx']
    rhs,            \* inputs['rhs']
    circulations,   \* outputs['circulations']
    lu,             \* self.lu; NoAttr until first assigned
    ret,            \* what the most recent call wrote to its output argument
    seed,           \* the right-hand side handed to the most recent solve_linear
    lastOp,         \* the most recent call
    err,            \* the exception the most recent call raised, or "none"
    factored,       \* the most recent call ran lu_factor
    lastFact,       \* the call that last assigned self.lu, "none" before the first
    dirty,          \* mtx was changed after the last solve_nonlinear / linearize call
    prior,          \* what self.lu held when it was last assigned, and the call that had written it
    \* TransferDisplacements / TransferLoads
    surface,        \* the surface dictionary handed to __init__
    mesh,           \* params[name+'mesh']
    disp,           \* params[name+'disp']
    def_mesh,       \* unknowns[name+'def_mesh'], params[name+'def_mesh']
    sec_forces,     \* params[name+'sec_forces']
    loads,          \* unknowns[name+'loads']
    tpc             \* the transfer calls made so far

solverVars == <<mtx, rhs, circulations, lu, ret, seed, lastOp, err, factored, lastFact, dirty, prior>>
transferVars == <<surface, mesh, disp, def_mesh, sec_forces, loads, tpc>>
vars == <<mtx, rhs, circulations, lu, ret, seed, lastOp, err, factored, lastFact, dirty, prior,
          surface, mesh, disp, def_mesh, sec_forces, loads, tpc>>

----------------------------------------------------------------------------
(* Bounds of the model *)

\* largest component of a seed vector handed to solve_linear
MaxSeed == 1
\* largest component of a sectional force
MaxForce == 1

----------------------------------------------------------------------------
(* Extended rational arithmetic (IEEE doubles without rounding) *)

Abs(n) == IF n < 0 THEN -n ELSE n
Sign(n) == IF n < 0 THEN -1 ELSE IF n > 0 THEN 1 ELSE 0

RECURSIVE GCD(_, _)
GCD(a, b) == IF b = 0 THEN a ELSE GCD(b, a % b)

Norm(n, d) ==
    IF d = 0 THEN <<Sign(n), 0>>
    ELSE LET s == Sign(d)
             g == GCD(Abs(n), Abs(d))
         IN  <<(s * n) \div g, (s * d) \div g>>

Rat(n) == <<n, 1>>
Zero == Rat(0)
One == Rat(1)
Half == <<1, 2>>
Quarter == <<1, 4>>
NaN == <<0, 0>>

IsFinite(a) == a[2] > 0

RNeg(a) == <<-a[1], a[2]>>
RAdd(a, b) ==
    IF a[2] = 0 /\ b[2] = 0
    THEN IF a = b THEN a ELSE NaN
    ELSE Norm(a[1] * b[2] + b[1] * a[2], a[2] * b[2])
RSub(a, b) == RAdd(a, RNeg(b))
RMul(a, b) == Norm(a[1] * b[1], a[2] * b[2])
RInv(a) == Norm(a[2], a[1])
RDiv(a, b) == RMul(a, RInv(b))
RAbs(a) == <<Abs(a[1]), a[2]>>
\* a < b, for finite a and b
RLess(a, b) == a[1] * b[2] < b[1] * a[2]

RECURSIVE SumTo(_, _)
\* f[1] + ... + f[n]
SumTo(f, n) == IF n = 0 THEN Zero ELSE RAdd(SumTo(f, n - 1), f[n])

RVec(v) == [i \in 1..Len(v) |-> Rat(v[i])]
RMat(m) == [i \in 1..Len(m) |-> RVec(m[i])]

----------------------------------------------------------------------------
(* numpy helpers *)

\* numpy.arange(n): the indices 0 .. n-1
arange(n) == [i \in 1..n |-> i - 1]
\* numpy.ones(n, int)
ones(n) == [i \in 1..n |-> 1]
\* numpy.outer(a, b) of two integer vectors
outer(a, b) == [i \in 1..Len(a) |-> [k \in 1..Len(b) |-> a[i] * b[k]]]
\* ndarray.flatten() of a matrix with equal-length rows, row-major (C order)
flatten(m) ==
    LET c == Len(m[1])
    IN  [p \in 1..(Len(m) * c) |-> m[((p - 1) \div c) + 1][((p - 1) % c) + 1]]
\* A.dot(x) for a matrix A and a vector x
MatVec(A, x) ==
    [i \in 1..Len(A) |-> SumTo([k \in 1..Len(x) |-> RMul(A[i][k], x[k])], Len(x))]
Transpose(A) == [i \in 1..Len(A) |-> [j \in 1..Len(A) |-> A[j][i]]]

----------------------------------------------------------------------------
(* scipy.linalg.lu_factor / lu_solve (LAPACK getrf / getrs) *)

SwapAt(x, i, j) == [x EXCEPT ![i] = x[j], ![j] = x[i]]

RECURSIVE PivotRow(_, _, _, _)
\* idamax: the first row r >= k with the largest |A[r][k]|
PivotRow(A, k, i, best) ==
    IF i > Len(A) THEN best
    ELSE PivotRow(A, k, i + 1,
                  IF RLess(RAbs(A[best][k]), RAbs(A[i][k])) THEN i ELSE best)

\* one elimination step on column k, A[k][k] # 0: multipliers stored below the diagonal
Eliminate(A, k) ==
    [i \in 1..Len(A) |->
        IF i <= k THEN A[i]
        ELSE LET l == RDiv(A[i][k], A[k][k])
             IN  [j \in 1..Len(A) |->
                     IF j < k THEN A[i][j]
                     ELSE IF j = k THEN l
                     ELSE RSub(A[i][j], RMul(l, A[k][j]))]]

RECURSIVE getrf(_, _, _, _)
\* partial pivoting; a zero pivot is recorded in info and the column is skipped
getrf(A, piv, info, k) ==
    IF k > Len(A) THEN [lu |-> A, piv |-> piv, info |-> info]
    ELSE LET p == PivotRow(A, k, k + 1, k)
             B == SwapAt(A, k, p)
         IN  IF B[k][k] = Zero
             THEN getrf(B, Append(piv, p), IF info = 0 THEN k ELSE info, k + 1)
             ELSE getrf(Eliminate(B, k), Append(piv, p), info, k + 1)

\* lu_factor(a): info > 0 only raises a LinAlgWarning, the factors are returned
lu_factor(a) == getrf(a, <<>>, 0, 1)

RECURSIVE ApplyPiv(_, _, _)
\* row interchanges k = 1 .. n
ApplyPiv(x, piv, k) ==
    IF k > Len(piv) THEN x ELSE ApplyPiv(SwapAt(x, k, piv[k]), piv, k + 1)

RECURSIVE ApplyPivRev(_, _, _)
\* row interchanges k = n .. 1
ApplyPivRev(x, piv, k) ==
    IF k = 0 THEN x ELSE ApplyPivRev(SwapAt(x, k, piv[k]), piv, k - 1)

RECURSIVE LowerSolve(_, _, _, _, _)
\* forward substitution with the lower triangle of T (unit diagonal if unit)
LowerSolve(T, b, unit, y, i) ==
    IF i > Len(b) THEN y
    ELSE LET s == RSub(b[i], SumTo([j \in 1..(i - 1) |-> RMul(T[i][j], y[j])], i - 1))
         IN  LowerSolve(T, b, unit,
                        [y EXCEPT ![i] = IF unit THEN s ELSE RDiv(s, T[i][i])], i + 1)

RECURSIVE UpperSolve(_, _, _, _, _)
\* back substitution with the upper triangle of T (unit diagonal if unit)
UpperSolve(T, b, unit, x, i) ==
    IF i = 0 THEN x
    ELSE LET n == Len(b)
             s == RSub(b[i], SumTo([j \in 1..(n - i) |-> RMul(T[i][i + j], x[i + j])], n - i))
         IN  UpperSolve(T, b, unit,
                        [x EXCEPT ![i] = IF unit THEN s ELSE RDiv(s, T[i][i])], i - 1)

\* lu_solve((lu, piv), b, trans): trans = 0 solves a x = b, trans = 1 solves a^T x = b
lu_solve(f, b, trans) ==
    LET n == Len(b)
    IN  IF trans = 0
        THEN LET pb == ApplyPiv(b, f.piv, 1)
                 y  == LowerSolve(f.lu, pb, TRUE, pb, 1)
             IN  UpperSolve(f.lu, y, FALSE, y, n)
        ELSE LET t == Transpose(f.lu)
                 y == LowerSolve(t, b, FALSE, b, 1)
                 z == UpperSolve(t, y, TRUE, y, n)
             IN  ApplyPivRev(z, f.piv, n)

----------------------------------------------------------------------------
(* SolveMatrix *)

\* options['surfaces']
surfaces == << [num_x |-> 2, num_y |-> 3] >>

RECURSIVE PanelCount(_, _)
\* the loop of setup over the surfaces
PanelCount(ss, k) ==
    IF k = 0 THEN 0
    ELSE PanelCount(ss, k - 1) + (ss[k].num_x - 1) * (ss[k].num_y - 1)

system_size == PanelCount(surfaces, Len(surfaces))

\* \outer of two float vectors
outerf(a, b) == [i \in 1..Len(a) |-> [k \in 1..Len(b) |-> RMul(a[i], b[k])]]

\* declare_partials('circulations', 'circulations', rows=, cols=)
cc_rows == flatten(outer(arange(system_size), ones(system_size)))
cc_cols == flatten(outer(ones(system_size), arange(system_size)))
\* cm_rows with the two factors of the outer product exchanged
cm_rows_exchanged == flatten(outer(ones(system_size), arange(system_size)))

\* declare_partials('circulations', 'mtx', rows=, cols=)
cm_rows == flatten(outer(arange(system_size), ones(system_size)))
cm_cols == arange(system_size * system_size)
\* declare_partials('circulations', 'rhs', val=-1., rows=, cols=)
cr_rows == arange(system_size)
cr_cols == arange(system_size)
cr_vals == [i \in 1..system_size |-> Rat(-1)]

\* the matrices the framework hands in: the default (all ones, singular), the
\* identity, a zero leading entry (rows interchanged), an upper triangular one,
\* one whose rows are interchanged by magnitude, one with fractional factors
\* and one with a zero row
Matrices ==
    {RMat(m) : m \in {<<<<1, 1>>, <<1, 1>>>>,
                      <<<<1, 0>>, <<0, 1>>>>,
                      <<<<0, 1>>, <<1, 0>>>>,
                      <<<<1, 1>>, <<0, 1>>>>,
                      <<<<1, 2>>, <<3, 1>>>>,
                      <<<<2, 0>>, <<1, 3>>>>,
                      <<<<1, 2>>, <<0, 0>>>>}}
RhsVectors == {RVec(v) : v \in {<<1, 1>>, <<1, 0>>}}
Seeds == {RVec(v) : v \in [1..system_size -> 0..MaxSeed]}
Modes == {"fwd", "rev"}

NoAttr == [lu |-> <<>>, piv |-> <<>>, info |-> -1]
NoRet == <<>>
NoSeed == [mode |-> "none", vec |-> <<>>]

\* what self.lu holds (old) against what is being assigned to it (new)
Held(old, new) ==
    [held |-> IF old = NoAttr THEN "unset" ELSE IF old = new THEN "same" ELSE "other",
     by   |-> lastFact]

\* inputs['mtx'].dot(outputs['circulations']) - inputs['rhs']
Residual(m, g, b) == [i \in 1..Len(b) |-> RSub(MatVec(m, g)[i], b[i])]

\* inputs and outputs start at the framework's default value 1.0
SolverInit ==
    /\ mtx = [i \in 1..system_size |-> [k \in 1..system_size |-> One]]
    /\ rhs = [i \in 1..system_size |-> One]
    /\ circulations = [i \in 1..system_size |-> One]
    /\ lu = NoAttr
    /\ ret = NoRet
    /\ seed = NoSeed
    /\ lastOp = "setup"
    /\ err = "none"
    /\ factored = FALSE
    /\ lastFact = "none"
    /\ dirty = FALSE
    /\ prior = [held |-> "none", by |-> "none"]

\* the framework writes another matrix to inputs['mtx']
SetMtx(m) ==
    /\ m # mtx
    /\ mtx' = m
    /\ dirty' = (lu # NoAttr)
    /\ lastOp' = "set_mtx"
    /\ ret' = NoRet
    /\ seed' = NoSeed
    /\ err' = "none"
    /\ factored' = FALSE
    /\ UNCHANGED <<rhs, circulations, lu, lastFact, prior>>
    /\ UNCHANGED transferVars

\* the framework writes another vector to inputs['rhs']
SetRhs(b) ==
    /\ b # rhs
    /\ rhs' = b
    /\ lastOp' = "set_rhs"
    /\ ret' = NoRet
    /\ seed' = NoSeed
    /\ err' = "none"
    /\ factored' = FALSE
    /\ UNCHANGED <<mtx, circulations, lu, lastFact, dirty, prior>>
    /\ UNCHANGED transferVars

\* apply_nonlinear refreshing self.lu on the way
apply_nonlinear_factoring ==
    /\ ret' = Residual(mtx, circulations, rhs)
    /\ lu' = lu_factor(mtx)
    /\ factored' = TRUE
    /\ lastOp' = "apply_nonlinear"
    /\ seed' = NoSeed
    /\ err' = "none"
    /\ UNCHANGED <<mtx, rhs, circulations, lastFact, dirty, prior>>
    /\ UNCHANGED transferVars

apply_nonlinear ==
    /\ ret' = Residual(mtx, circulations, rhs)
    /\ lastOp' = "apply_nonlinear"
    /\ seed' = NoSeed
    /\ err' = "none"
    /\ factored' = FALSE
    /\ UNCHANGED <<mtx, rhs, circulations, lu, lastFact, dirty, prior>>
    /\ UNCHANGED transferVars

\* solve_nonlinear reusing self.lu while mtx has not changed since it was written
solve_nonlinear_reusing ==
    /\ lu' = IF lu # NoAttr /\ ~dirty THEN lu ELSE lu_factor(mtx)
    /\ factored' = ~(lu # NoAttr /\ ~dirty)
    /\ circulations' = lu_solve(lu', rhs, 0)
    /\ ret' = circulations'
    /\ lastFact' = "solve_nonlinear"
    /\ dirty' = FALSE
    /\ prior' = Held(lu, lu')
    /\ lastOp' = "solve_nonlinear"
    /\ seed' = NoSeed
    /\ err' = "none"
    /\ UNCHANGED <<mtx, rhs>>
    /\ UNCHANGED transferVars

solve_nonlinear ==
    /\ lu' = lu_factor(mtx)
    /\ circulations' = lu_solve(lu', rhs, 0)
    /\ ret' = circulations'
    /\ factored' = TRUE
    /\ lastFact' = "solve_nonlinear"
    /\ dirty' = FALSE
    /\ prior' = Held(lu, lu')
    /\ lastOp' = "solve_nonlinear"
    /\ seed' = NoSeed
    /\ err' = "none"
    /\ UNCHANGED <<mtx, rhs>>
    /\ UNCHANGED transferVars

\* linearize filling the partials without refreshing self.lu
linearize_keeping_lu ==
    /\ ret' = [cc |-> flatten(mtx),
               cm |-> flatten(outerf(RVec(ones(system_size)), circulations))]
    /\ factored' = FALSE
    /\ dirty' = FALSE
    /\ lastOp' = "linearize"
    /\ seed' = NoSeed
    /\ err' = "none"
    /\ UNCHANGED <<mtx, rhs, circulations, lu, lastFact, prior>>
    /\ UNCHANGED transferVars

linearize ==
    /\ lu' = lu_factor(mtx)
    /\ ret' = [cc |-> flatten(mtx),
               cm |-> flatten(outerf(RVec(ones(system_size)), circulations))]
    /\ factored' = TRUE
    /\ lastFact' = "linearize"
    /\ dirty' = FALSE
    /\ prior' = Held(lu, lu')
    /\ lastOp' = "linearize"
    /\ seed' = NoSeed
    /\ err' = "none"
    /\ UNCHANGED <<mtx, rhs, circulations>>
    /\ UNCHANGED transferVars

\* solve_linear factorizing on demand when self.lu was never assigned
solve_linear_on_demand(mode, s) ==
    /\ lastOp' = "solve_linear"
    /\ seed' = [mode |-> mode, vec |-> s]
    /\ err' = "none"
    /\ lu' = IF lu = NoAttr THEN lu_factor(mtx) ELSE lu
    /\ ret' = IF mode = "fwd" THEN lu_solve(lu', s, 0) ELSE lu_solve(lu', s, 1)
    /\ factored' = (lu = NoAttr)
    /\ UNCHANGED <<mtx, rhs, circulations, lastFact, dirty, prior>>
    /\ UNCHANGED transferVars

\* solve_linear with the two trans flags exchanged
solve_linear_exchanged(mode, s) ==
    /\ lastOp' = "solve_linear"
    /\ seed' = [mode |-> mode, vec |-> s]
    /\ IF lu = NoAttr
       THEN /\ err' = "AttributeError"
            /\ ret' = NoRet
       ELSE /\ err' = "none"
            /\ ret' = IF mode = "fwd" THEN lu_solve(lu, s, 1) ELSE lu_solve(lu, s, 0)
    /\ factored' = FALSE
    /\ UNCHANGED <<mtx, rhs, circulations, lu, lastFact, dirty, prior>>
    /\ UNCHANGED transferVars

\* self.lu is read first: with no such attribute the call raises AttributeError
solve_linear(mode, s) ==
    /\ lastOp' = "solve_linear"
    /\ seed' = [mode |-> mode, vec |-> s]
    /\ IF lu = NoAttr
       THEN /\ err' = "AttributeError"
            /\ ret' = NoRet
       ELSE /\ err' = "none"
            /\ ret' = IF mode = "fwd" THEN lu_solve(lu, s, 0) ELSE lu_solve(lu, s, 1)
    /\ factored' = FALSE
    /\ UNCHANGED <<mtx, rhs, circulations, lu, lastFact, dirty, prior>>
    /\ UNCHANGED transferVars

----------------------------------------------------------------------------
(* transfer.py: vectors of three coordinates *)

V3Add(u, v) == <<RAdd(u[1], v[1]), RAdd(u[2], v[2]), RAdd(u[3], v[3])>>
V3Sub(u, v) == <<RSub(u[1], v[1]), RSub(u[2], v[2]), RSub(u[3], v[3])>>
V3Scale(c, v) == <<RMul(c, v[1]), RMul(c, v[2]), RMul(c, v[3])>>
V3Zero == <<Zero, Zero, Zero>>
\* numpy.cross(r, F)
cross(r, F) ==
    <<RSub(RMul(r[2], F[3]), RMul(r[3], F[2])),
      RSub(RMul(r[3], F[1]), RMul(r[1], F[3])),
      RSub(RMul(r[1], F[2]), RMul(r[2], F[1]))>>
\* v.dot(T) for a row vector v and a 3x3 matrix T
RowDot(v, T) ==
    [c \in 1..3 |-> SumTo([r \in 1..3 |-> RMul(v[r], T[r][c])], 3)]

RECURSIVE V3Sum(_, _)
\* f[1] + ... + f[n] for vectors
V3Sum(f, n) == IF n = 0 THEN V3Zero ELSE V3Add(V3Sum(f, n - 1), f[n])

\* angles are counted in quarter turns (multiples of pi/2), where cos and sin are exact
cos(q) == Rat(<<1, 0, -1, 0>>[(q % 4) + 1])
sin(q) == Rat(<<0, 1, 0, -1>>[(q % 4) + 1])

\* numpy.zeros((a, b, 3)) and numpy.zeros((a, 6))
zeros3(a, b) == [i \in 1..a |-> [j \in 1..b |-> V3Zero]]
zeros6(a) == [j \in 1..a |-> <<Zero, Zero, Zero, Zero, Zero, Zero>>]

----------------------------------------------------------------------------
(* TransferDisplacements *)

\* (1-w) * mesh[0, :, :] + w * mesh[-1, :, :]
ref_curve(m, w) ==
    [j \in 1..Len(m[1]) |->
        V3Add(V3Scale(RSub(One, w), m[1][j]), V3Scale(w, m[Len(m)][j]))]

\* mesh[ind, :, :] - ref_curve
SmeshFrom(m, ref) ==
    [i \in 1..Len(m) |-> [j \in 1..Len(m[1]) |-> V3Sub(m[i][j], ref[j])]]
Smesh(m, w) == SmeshFrom(m, ref_curve(m, w))

\* the three blocks added to T0, a multiple of the identity
RotBlocks(T0, rx, ry, rz) ==
    <<<<RAdd(RAdd(T0[1][1], cos(ry)), cos(rz)),
        RSub(T0[1][2], sin(rz)),
        RAdd(T0[1][3], sin(ry))>>,
      <<RAdd(T0[2][1], sin(rz)),
        RAdd(RAdd(T0[2][2], cos(rx)), cos(rz)),
        RSub(T0[2][3], sin(rx))>>,
      <<RSub(T0[3][1], sin(ry)),
        RAdd(T0[3][2], sin(rx)),
        RAdd(RAdd(T0[3][3], cos(rx)), cos(ry))>>>>

eye3(c) == [r \in 1..3 |-> [k \in 1..3 |-> IF r = k THEN c ELSE Zero]]

\* T built on -3 * eye instead of -2 * eye
T_minus3(rx, ry, rz) == RotBlocks(eye3(Rat(-3)), rx, ry, rz)

\* T = -2 * eye(3), then the x, y and z rotation blocks added in place
T(rx, ry, rz) == RotBlocks(eye3(Rat(-2)), rx, ry, rz)

\* def_mesh + mesh, with def_mesh accumulated station by station
deformFrom(m, d, S, Ts) ==
    [i \in 1..Len(m) |->
        [j \in 1..Len(m[1]) |->
            V3Add(V3Add(RowDot(S[i][j], Ts[j]), <<d[j][1], d[j][2], d[j][3]>>),
                  m[i][j])]]
deform(m, d, w) ==
    deformFrom(m, d, Smesh(m, w), [j \in 1..Len(m[1]) |-> T(d[j][4], d[j][5], d[j][6])])

----------------------------------------------------------------------------
(* TransferLoads *)

\* numpy.sum(sec_forces, axis=0)
sum_axis0(sf) == [j \in 1..Len(sf[1]) |-> V3Sum([i \in 1..Len(sf) |-> sf[i][j]], Len(sf))]

\* the weighted mean of the four corners of every panel
panel_pts(m, w) ==
    [i \in 1..(Len(m) - 1) |->
        [j \in 1..(Len(m[1]) - 1) |->
            V3Add(V3Add(V3Scale(RMul(Half, RSub(One, w)), m[i][j]),
                        V3Scale(RMul(Half, w), m[i + 1][j])),
                  V3Add(V3Scale(RMul(Half, RSub(One, w)), m[i][j + 1]),
                        V3Scale(RMul(Half, w), m[i + 1][j + 1])))]]

\* the weight of a_pts set to 0.5
aero_w_half == Half

\* w = 0.25 for a_pts
aero_w == Quarter

\* moment[ind, :] = cross(a_pts[0, ind, :] - s_pts[0, ind, :], sec_forces[ind, :])
momentFrom(a_pts, s_pts, F) ==
    [j \in 1..Len(F) |-> cross(V3Sub(a_pts[1][j], s_pts[1][j]), F[j])]
moment(m, F, w) == momentFrom(panel_pts(m, aero_w), panel_pts(m, w), F)

\* half of a panel's value added to the node on its left only
half_to_first(v, ny) ==
    [j \in 1..ny |-> IF j <= ny - 1 THEN V3Scale(Half, v[j]) ELSE V3Zero]

\* x[:-1] += 0.5 * v ; x[1:] += 0.5 * v
half_to_both(v, ny) ==
    [j \in 1..ny |->
        V3Add(IF j <= ny - 1 THEN V3Scale(Half, v[j]) ELSE V3Zero,
              IF j >= 2 THEN V3Scale(Half, v[j - 1]) ELSE V3Zero)]

\* loads[:, :3] and loads[:, 3:] side by side
loadsFrom(f, mo) == [j \in 1..Len(f) |-> f[j] \o mo[j]]
nodalFrom(m, F, w) ==
    loadsFrom(half_to_both(F, Len(m[1])), half_to_both(moment(m, F, w), Len(m[1])))
nodal_loads(m, sf, w) == nodalFrom(m, sum_axis0(sf), w)

----------------------------------------------------------------------------
(* the surfaces, meshes, displacements and forces the components are run on *)

Surfaces ==
    {[num_x |-> s[1], num_y |-> s[2], fem_origin |-> w] :
        s \in {<<2, 3>>, <<3, 2>>}, w \in {Quarter, Half}}

\* chord, sweep per station and rise per station; flat when the rise is 0
MeshShapes == {<<1, 0, 0>>, <<2, 1, 0>>, <<1, 1, 1>>}
MeshOf(s, g) ==
    [i \in 1..s.num_x |->
        [j \in 1..s.num_y |->
            <<Rat((i - 1) * g[1] + (j - 1) * g[2]), Rat(j - 1), Rat((j - 1) * g[3])>>]]

\* (dx, dy, dz, rx, ry, rz): rest, a translation, a translation with rotations
DispRows ==
    {<<Zero, Zero, Zero, 0, 0, 0>>,
     <<One, Rat(2), <<-1, 2>>, 0, 0, 0>>,
     <<Zero, Zero, One, 0, 1, 2>>}

PanelForces ==
    {<<Rat(fx), Zero, Rat(fz)>> : fx \in 0..MaxForce, fz \in (-MaxForce)..MaxForce}

TransferInit ==
    /\ surface \in Surfaces
    /\ mesh \in {MeshOf(surface, g) : g \in MeshShapes}
    /\ disp \in [1..surface.num_y -> DispRows]
    /\ sec_forces \in [1..(surface.num_x - 1) -> [1..(surface.num_y - 1) -> PanelForces]]
    /\ def_mesh = zeros3(surface.num_x, surface.num_y)
    /\ loads = zeros6(surface.num_y)
    /\ tpc = "init"

TransferDisplacements ==
    /\ tpc = "init"
    /\ def_mesh' = deform(mesh, disp, surface.fem_origin)
    /\ tpc' = "displaced"
    /\ UNCHANGED <<surface, mesh, disp, sec_forces, loads>>
    /\ UNCHANGED solverVars

\* run on def_mesh as it is: the output of TransferDisplacements, or still zeros
TransferLoads ==
    /\ tpc \in {"init", "displaced"}
    /\ loads' = nodal_loads(def_mesh, sec_forces, surface.fem_origin)
    /\ tpc' = IF tpc = "init" THEN "loaded_undeformed" ELSE "loaded"
    /\ UNCHANGED <<surface, mesh, disp, def_mesh, sec_forces>>
    /\ UNCHANGED solverVars

TransferNext ==
    \/ TransferDisplacements
    \/ TransferLoads

TransferIdle ==
    /\ surface = [num_x |-> 0, num_y |-> 0, fem_origin |-> Zero]
    /\ mesh = <<>>
    /\ disp = <<>>
    /\ def_mesh = <<>>
    /\ sec_forces = <<>>
    /\ loads = <<>>
    /\ tpc = "idle"

SolverNext ==
    \/ \E m \in Matrices : SetMtx(m)
    \/ \E b \in RhsVectors : SetRhs(b)
    \/ apply_nonlinear
    \/ solve_nonlinear
    \/ linearize
    \/ \E mode \in Modes, s \in Seeds : solve_linear(mode, s)

Init == SolverInit /\ TransferIdle
Next == SolverNext
Spec == Init /\ [][Next]_vars

TransferSpecInit == SolverInit /\ TransferInit
TransferSpec == TransferSpecInit /\ [][TransferNext]_vars

----------------------------------------------------------------------------
(* Properties of SolveMatrix *)

Minor(A, c) ==
    [i \in 1..(Len(A) - 1) |->
        [j \in 1..(Len(A) - 1) |-> A[i + 1][IF j < c THEN j ELSE j + 1]]]

RECURSIVE Det(_)
\* the determinant, expanded along the first row
Det(A) ==
    IF Len(A) = 1 THEN A[1][1]
    ELSE SumTo([c \in 1..Len(A) |->
                   RMul(IF c % 2 = 1 THEN A[1][c] ELSE RNeg(A[1][c]), Det(Minor(A, c)))],
               Len(A))

Singular(A) == Det(A) = Zero
AllFinite(v) == \A i \in DOMAIN v : IsFinite(v[i])
Trans(mode) == IF mode = "fwd" THEN 0 ELSE 1
Solved == lastOp = "solve_linear" /\ err = "none"
Factorizing == lastOp \in {"solve_nonlinear", "linearize"}

\* C1 as stated: every solve_linear call that returns uses the factorization of the
\* matrix that is current at the time of the call.
C1_AlwaysCurrent == Solved => lu = lu_factor(mtx)

\* C1, amended: a solve_linear call uses the factorization written by the latest
\* solve_nonlinear or linearize call; it is the factorization of the current matrix
\* whenever the matrix has not changed since that call (a change of the matrix
\* alone does not refresh the cache).
C1_CurrentUnlessChanged ==
    (Solved /\ ~dirty) =>
        /\ lu = lu_factor(mtx)
        /\ ret = lu_solve(lu_factor(mtx), seed.vec, Trans(seed.mode))

C1_Witness == Solved /\ ~dirty /\ prior.held = "other" /\ lastFact = "linearize"

\* C3 as stated: solve_nonlinear on a singular matrix fails with SingularSystemError
\* and writes no circulation vector.
C3_SingularRaises ==
    (lastOp = "solve_nonlinear" /\ Singular(mtx)) =>
        (err = "SingularSystemError" /\ ret = NoRet)

\* C4: a solve_linear call that returns a solution was preceded by a completed
\* solve_nonlinear or linearize call; with self.lu never written the call raises
\* and returns nothing.
C4_SolveAfterFactor ==
    lastOp = "solve_linear" =>
        /\ (err = "none" /\ ret # NoRet) => (lastFact # "none" /\ lu # NoAttr)
        /\ lastFact = "none" => (err = "AttributeError" /\ ret = NoRet)

C4_Witness == Solved /\ ret # NoRet /\ lastFact = "solve_nonlinear"

\* the entry (i, j), counted from 0, of the matrix given by the triplets
Entry(rows, cols, vals, i, j) ==
    LET at == {p \in DOMAIN vals : rows[p] = i /\ cols[p] = j}
    IN  SumTo([q \in 1..Len(vals) |-> IF q \in at THEN vals[q] ELSE Zero], Len(vals))

Unit(n, k) == [i \in 1..n |-> IF i = k THEN One ELSE Zero]
VecAdd(a, b) == [i \in DOMAIN a |-> RAdd(a[i], b[i])]
BumpMtx(m, j, k) == [m EXCEPT ![j][k] = RAdd(m[j][k], One)]

\* exact partials of the residual: it is linear in each argument, so the
\* difference quotient with step 1 is the derivative
dR_dGamma(i, k) ==
    RSub(Residual(mtx, VecAdd(circulations, Unit(system_size, k)), rhs)[i],
         Residual(mtx, circulations, rhs)[i])
dR_dM(i, j, k) ==
    RSub(Residual(BumpMtx(mtx, j, k), circulations, rhs)[i],
         Residual(mtx, circulations, rhs)[i])
dR_dB(i, k) ==
    RSub(Residual(mtx, circulations, VecAdd(rhs, Unit(system_size, k)))[i],
         Residual(mtx, circulations, rhs)[i])

\* C7: after linearize the declared triplets hold the partials of R = M.Gamma - b:
\* (i,k) -> M[i,k] for the circulations block, (i, i*n+k) -> Gamma[k] and nothing in
\* the columns of other rows for the mtx block, minus the identity for the rhs block.
C7_Jacobian ==
    lastOp = "linearize" =>
        \A i, k \in 1..system_size :
            /\ Entry(cc_rows, cc_cols, ret.cc, i - 1, k - 1) = mtx[i][k]
            /\ Entry(cr_rows, cr_cols, cr_vals, i - 1, k - 1) = (IF i = k THEN Rat(-1) ELSE Zero)
            /\ \A j \in 1..system_size :
                  Entry(cm_rows, cm_cols, ret.cm, i - 1, (j - 1) * system_size + (k - 1))
                      = (IF i = j THEN circulations[k] ELSE Zero)
            /\ AllFinite(circulations) =>
                  /\ Entry(cc_rows, cc_cols, ret.cc, i - 1, k - 1) = dR_dGamma(i, k)
                  /\ Entry(cr_rows, cr_cols, cr_vals, i - 1, k - 1) = dR_dB(i, k)
                  /\ \A j \in 1..system_size :
                        Entry(cm_rows, cm_cols, ret.cm, i - 1, (j - 1) * system_size + (k - 1))
                            = dR_dM(i, j, k)

C7_Witness ==
    /\ lastOp = "linearize"
    /\ AllFinite(circulations)
    /\ circulations[1] # circulations[2]
    /\ mtx[1][2] # mtx[2][1]

\* C8 as stated: with the factorization of M in the cache, a later solve_nonlinear
\* or linearize call with the same M does not factorize again.
C8_NoRefactor == (Factorizing /\ prior.held = "same") => ~factored

\* C8, amended: every solve_nonlinear and linearize call factorizes M, also when
\* the cache already holds the factorization of the same M; the cache then holds
\* the same factors as before.
C8_AlwaysRefactor == Factorizing => (factored /\ lu = lu_factor(mtx))

C8_Witness == Factorizing /\ prior.held = "same" /\ ~Singular(mtx)

\* C9: once linearize has run on the changed matrix the cache holds its
\* factorization, and every solve_linear call before the next change of the matrix
\* solves with that matrix (forward) or its transpose (reverse).
C9_LinearizeRefreshes ==
    /\ lastOp = "linearize" => lu = lu_factor(mtx)
    /\ (lastOp = "solve_linear" /\ lastFact = "linearize" /\ ~dirty) =>
          /\ err = "none"
          /\ lu = lu_factor(mtx)
          /\ ~Singular(mtx) =>
                seed.vec = MatVec(IF seed.mode = "fwd" THEN mtx ELSE Transpose(mtx), ret)

C9_Witness ==
    /\ lastOp = "solve_linear"
    /\ seed.mode = "rev"
    /\ lastFact = "linearize"
    /\ prior = [held |-> "other", by |-> "solve_nonlinear"]
    /\ ~dirty
    /\ ~Singular(mtx)
    /\ mtx[1][2] # mtx[2][1]
    /\ ret[1] # ret[2]

\* C10: solve_linear (either mode) and apply_nonlinear leave self.lu as it is and
\* run no factorization; solve_linear solves with the cached factors, transposed
\* in reverse mode.
C10_CacheUntouched ==
    [][ /\ lastOp' \in {"solve_linear", "apply_nonlinear"} => (lu' = lu /\ ~factored')
        /\ (lastOp' = "solve_linear" /\ lu # NoAttr) =>
              ret' = lu_solve(lu, seed'.vec, Trans(seed'.mode)) ]_vars

C10_Witness ==
    /\ Solved
    /\ seed.mode = "rev"
    /\ ~Singular(mtx)
    /\ lu = lu_factor(mtx)
    /\ ret # seed.vec

----------------------------------------------------------------------------
(* Properties of the transfer components *)

Displaced == tpc \in {"displaced", "loaded"}
Loaded == tpc \in {"loaded", "loaded_undeformed"}
Translation(j) == <<disp[j][1], disp[j][2], disp[j][3]>>
NoRotation == \A j \in DOMAIN disp : disp[j][4] = 0 /\ disp[j][5] = 0 /\ disp[j][6] = 0
UniformTranslation == \A j \in DOMAIN disp : Translation(j) = Translation(1)
ForceOf(row) == <<row[1], row[2], row[3]>>
MomentOf(row) == <<row[4], row[5], row[6]>>
NodalForceSum == V3Sum([j \in 1..Len(loads) |-> ForceOf(loads[j])], Len(loads))
\* the sectional forces added up panel by panel, spanwise first
PanelForceSum ==
    V3Sum([i \in 1..Len(sec_forces) |->
              V3Sum([j \in 1..Len(sec_forces[i]) |-> sec_forces[i][j]], Len(sec_forces[i]))],
          Len(sec_forces))

\* C2: the force columns of the nodal loads add up, over the nodes, to the sum of
\* the sectional forces over all panels, component by component.
C2_ForceConserved == Loaded => NodalForceSum = PanelForceSum

C2_Witness ==
    /\ tpc = "loaded"
    /\ surface.num_x = 3
    /\ sec_forces[1][1] # sec_forces[2][1]
    /\ PanelForceSum[1] # Zero
    /\ PanelForceSum[3] # Zero
    /\ def_mesh # mesh

\* C5: with no rotation at any station and the same translation at every station,
\* every point of the deformed mesh is the mesh point plus that translation; with
\* an all-zero displacement field the deformed mesh is the mesh.
C5_RigidShift ==
    (Displaced /\ NoRotation /\ UniformTranslation) =>
        /\ \A i \in DOMAIN mesh : \A j \in DOMAIN mesh[i] :
              def_mesh[i][j] = V3Add(mesh[i][j], Translation(1))
        /\ Translation(1) = V3Zero => def_mesh = mesh

C5_Witness ==
    /\ tpc = "displaced"
    /\ NoRotation
    /\ UniformTranslation
    /\ Translation(1) # V3Zero
    /\ surface.num_x = 3
    /\ mesh[1][2][3] # Zero

\* the scenario of C6: one surface with nx = 2, ny = 3, a flat mesh in the XY plane,
\* fem_origin = 0.25, no displacement, the force (0, 0, 1) on both panels
Scenario ==
    /\ tpc = "loaded"
    /\ surface = [num_x |-> 2, num_y |-> 3, fem_origin |-> Quarter]
    /\ \A i \in DOMAIN mesh : \A j \in DOMAIN mesh[i] : mesh[i][j][3] = Zero
    /\ \A j \in DOMAIN disp : disp[j] = <<Zero, Zero, Zero, 0, 0, 0>>
    /\ sec_forces = << << <<Zero, Zero, One>>, <<Zero, Zero, One>> >> >>

\* C6 as stated: in the scenario the nodal forces add up to (0, 0, 2) and the
\* moment columns hold nonzero pitching moments.
C6_NonzeroPitching ==
    Scenario =>
        /\ NodalForceSum = <<Zero, Zero, Rat(2)>>
        /\ \E j \in DOMAIN loads : loads[j][5] # Zero

\* C6, amended: in the scenario the deformed mesh is the mesh, the nodal forces add
\* up to (0, 0, 2) and every moment column is zero: with fem_origin = 0.25 the
\* structural axis lies on the quarter-chord line, so the moment arm vanishes.
C6_ZeroMoments ==
    Scenario =>
        /\ def_mesh = mesh
        /\ NodalForceSum = <<Zero, Zero, Rat(2)>>
        /\ \A j \in DOMAIN loads : MomentOf(loads[j]) = V3Zero

C6_Witness == Scenario /\ mesh[2][1][1] = Rat(2) /\ ForceOf(loads[2]) = <<Zero, Zero, One>>

====
